---- MODULE Spec2Model ----
(***************************************************************************)
(* Deferred aggregation of S3 bucket notifications in                      *)
(* pulumi-aws-serverless: nodejs/aws-serverless/bucket.ts and              *)
(* nodejs/aws-serverless/s3/bucket.ts.                                      *)
(*                                                                         *)
(* Every subscribe call declares a lambda function, a subscription         *)
(* component and a lambda permission at once and pushes a SubscriptionInfo *)
(* on the module-level map bucketSubscriptionInfos.  The `beforeExit`      *)
(* listener of the module swaps the map for a new one and declares one     *)
(* aws.s3.BucketNotification per key of the map it took.                   *)
(***************************************************************************)
EXTENDS Integers, Sequences, FiniteSets, TLC

(* Bounds of the model. *)
MaxCalls == 2

(* The two modules; each has its own map and its own listener. *)
Modules == {"bucket", "s3/bucket"}

(* The JavaScript value `undefined` of an optional string property. *)
Undefined == "undefined"

(* Logical names the callers pass to onEvent, and to the helpers. *)
Names == {"a", "b"}
HelperNames == {"a"}

(* Bucket objects.  `ref` is the identity of the JavaScript object; the two *)
(* objects carry the same logical name.                                     *)
Buckets == {[ref |-> 1, name |-> "bk"], [ref |-> 2, name |-> "bk"]}

(* args of onEvent. *)
BucketEventSubscriptionArgs ==
    { [events |-> <<>>, filterPrefix |-> Undefined, filterSuffix |-> Undefined],
      [events |-> <<"s3:ObjectCreated:Put", "s3:ObjectRemoved:*">>,
       filterPrefix |-> "in/", filterSuffix |-> Undefined] }

(* args? of onPut: <<>> is an omitted argument. *)
BucketPutArgs == { <<>> }

(* args? of onDelete. *)
BucketDeleteArgs == { <<[filterPrefix |-> Undefined, filterSuffix |-> ".txt"]>> }

(* args? of onObjectCreated: <<>> is an omitted argument. *)
ObjectCreatedSubscriptionArgs ==
    { <<>>,
      <<[event |-> "", filterPrefix |-> Undefined, filterSuffix |-> ".txt"]>>,
      <<[event |-> "Put", filterPrefix |-> "in/", filterSuffix |-> Undefined]>> }

(* args? of onObjectRemoved: <<>> is an omitted argument. *)
ObjectRemovedSubscriptionArgs ==
    { <<>>,
      <<[event |-> "", filterPrefix |-> "in/", filterSuffix |-> Undefined]>>,
      <<[event |-> "Delete", filterPrefix |-> Undefined, filterSuffix |-> Undefined]>> }

VARIABLES
    bucketSubscriptionInfos,  \* per module: the Map, as its entries in insertion order
    resources,                \* the resources declared to the engine, in order
    exited,                   \* the process has exited
    calls,                    \* history: the subscribe calls made, in order
    passes                    \* history: the emissions of beforeExit, in order

vars == <<bucketSubscriptionInfos, resources, exited, calls, passes>>

-----------------------------------------------------------------------------
(* JavaScript values *)

(* Mutant of OrElse: only undefined takes the default. *)
OrElseUndefinedOnly(x, d) == IF x = Undefined THEN d ELSE x

(* `x || d` on an optional string: undefined and "" are falsy. *)
OrElse(x, d) == IF x = Undefined \/ x = "" THEN d ELSE x

(* `args = args || {}` on an optional object with the properties of `empty`. *)
OrEmpty(args, empty) == IF args = <<>> THEN empty ELSE args[1]

(* The deferred value func.arn of the function object with identity f. *)
Arn(f) == [arnOf |-> f]

-----------------------------------------------------------------------------
(* Map<Bucket, SubscriptionInfo[]> *)

(* Mutant of SameValueZero: keys compared by the name of the bucket. *)
SameValueZeroByName(a, b) == a.name = b.name

(* Key equality of a Map: the identity of the object. *)
SameValueZero(a, b) == a.ref = b.ref

(* new Map() *)
NewMap == <<>>

MapIndex(map, bucket) == {i \in 1..Len(map) : SameValueZero(map[i].key, bucket)}

(* Mutant of PushSubscription: a request equal to one already in the list   *)
(* of its bucket is dropped.                                                *)
PushSubscriptionDedup(map, bucket, info) ==
    IF MapIndex(map, bucket) = {}
    THEN Append(map, [key |-> bucket, value |-> <<info>>])
    ELSE LET i == CHOOSE j \in MapIndex(map, bucket) : TRUE
             same(a) == /\ a.name = info.name /\ a.events = info.events
                        /\ a.filterPrefix = info.filterPrefix
                        /\ a.filterSuffix = info.filterSuffix
         IN  IF \E j \in 1..Len(map[i].value) : same(map[i].value[j])
             THEN map
             ELSE [map EXCEPT ![i].value = Append(@, info)]

(* Mutant of PushSubscription: the new request replaces the list of its     *)
(* bucket.                                                                  *)
PushSubscriptionReplace(map, bucket, info) ==
    IF MapIndex(map, bucket) = {}
    THEN Append(map, [key |-> bucket, value |-> <<info>>])
    ELSE LET i == CHOOSE j \in MapIndex(map, bucket) : TRUE
         IN  [map EXCEPT ![i].value = <<info>>]

(* Mutant of PushSubscription: the new request goes to the front of the     *)
(* list of its bucket.                                                      *)
PushSubscriptionFront(map, bucket, info) ==
    IF MapIndex(map, bucket) = {}
    THEN Append(map, [key |-> bucket, value |-> <<info>>])
    ELSE LET i == CHOOSE j \in MapIndex(map, bucket) : TRUE
         IN  [map EXCEPT ![i].value = <<info>> \o @]

(* Mutant of PushSubscription: a bucket not yet in the map gets its new     *)
(* list, and the request is pushed only on a list that was there.           *)
PushSubscriptionSetOnly(map, bucket, info) ==
    IF MapIndex(map, bucket) = {}
    THEN Append(map, [key |-> bucket, value |-> <<>>])
    ELSE LET i == CHOOSE j \in MapIndex(map, bucket) : TRUE
         IN  [map EXCEPT ![i].value = Append(@, info)]

(* The constructor's get / set / push: the info goes to the end of the list *)
(* of its bucket, and a bucket not yet in the map gets a new list.          *)
PushSubscription(map, bucket, info) ==
    IF MapIndex(map, bucket) = {}
    THEN Append(map, [key |-> bucket, value |-> <<info>>])
    ELSE LET i == CHOOSE j \in MapIndex(map, bucket) : TRUE
         IN  [map EXCEPT ![i].value = Append(@, info)]

-----------------------------------------------------------------------------
(* Declarations.  A declared resource is identified by its position in      *)
(* `resources`.                                                             *)

(* createLambdaFunction(name, handler, opts): declares the function. *)
createLambdaFunction(res, name) ==
    Append(res, [type |-> "aws:lambda:Function", name |-> name])

(* super(...) of BucketEventSubscription: declares the component. *)
EventSubscription(res, name, func, bucket) ==
    Append(res, [type |-> "aws-serverless:bucket:BucketEventSubscription",
                 name |-> name, func |-> func, bucket |-> bucket])

(* new aws.lambda.Permission(name, {function: func, ...}, {parent: this}) *)
Permission(res, name, func, parent) ==
    Append(res, [type |-> "aws:lambda:Permission", name |-> name,
                 function |-> func, parent |-> parent])

(* The SubscriptionInfo the constructor pushes. *)
SubscriptionInfo(name, args, func, permission) ==
    [name |-> name,
     events |-> args.events,
     filterPrefix |-> args.filterPrefix,
     filterSuffix |-> args.filterSuffix,
     lambdaFunctionArn |-> Arn(func),
     permission |-> permission]

(* new BucketEventSubscription(name, bucket, func, args, opts): the state   *)
(* after the constructor, from the map and the resources before it.        *)
BucketEventSubscription(map, res, name, bucket, func, args) ==
    LET res1 == EventSubscription(res, name, func, bucket)
        this == Len(res1)
        res2 == Permission(res1, name, func, this)
        permission == Len(res2)
    IN  [map |-> PushSubscription(map, bucket,
                                  SubscriptionInfo(name, args, func, permission)),
         resources |-> res2,
         threw |-> "none"]

(* The suffix of the function's name, per module. *)
FunctionSuffix(m) == IF m = "bucket" THEN "-bucket-subscription" ELSE "-bucket-event"

(* onEvent(name, bucket, handler, args, opts) of module m. *)
onEvent(m, map, res, name, bucket, args) ==
    LET res1 == createLambdaFunction(res, name \o FunctionSuffix(m))
        func == Len(res1)
    IN  BucketEventSubscription(map, res1, name, bucket, func, args)

(* The argsCopy of onPut and onDelete: {...args, events: [event]}. *)
SpreadWithEvents(args, event) ==
    [filterPrefix |-> args.filterPrefix,
     filterSuffix |-> args.filterSuffix,
     events |-> <<event>>]

EmptySimpleArgs == [filterPrefix |-> Undefined, filterSuffix |-> Undefined]

(* Mutant of onPut: the request is registered under the name as given. *)
onPutUnsuffixed(map, res, name, bucket, args) ==
    onEvent("bucket", map, res, name, bucket,
            SpreadWithEvents(OrEmpty(args, EmptySimpleArgs), "s3:ObjectCreated:*"))

(* onPut(name, bucket, handler, args?, opts) of bucket.ts *)
onPut(map, res, name, bucket, args) ==
    onEvent("bucket", map, res, name \o "-put", bucket,
            SpreadWithEvents(OrEmpty(args, EmptySimpleArgs), "s3:ObjectCreated:*"))

(* onDelete(name, bucket, handler, args?, opts) of bucket.ts *)
onDelete(map, res, name, bucket, args) ==
    onEvent("bucket", map, res, name \o "-delete", bucket,
            SpreadWithEvents(OrEmpty(args, EmptySimpleArgs), "s3:ObjectRemoved:*"))

(* Mutant of CategoryArgs: the qualifier is ignored. *)
CategoryArgsNoQualifier(args, category) ==
    [filterPrefix |-> args.filterPrefix,
     filterSuffix |-> args.filterSuffix,
     events |-> <<category \o "*">>]

(* The argsCopy of onObjectCreated and onObjectRemoved. *)
CategoryArgs(args, category) ==
    [filterPrefix |-> args.filterPrefix,
     filterSuffix |-> args.filterSuffix,
     events |-> <<category \o OrElse(args.event, "*")>>]

EmptyCategoryArgs ==
    [event |-> Undefined, filterPrefix |-> Undefined, filterSuffix |-> Undefined]

(* onObjectCreated(name, bucket, handler, args?, opts) of s3/bucket.ts *)
onObjectCreated(map, res, name, bucket, args) ==
    onEvent("s3/bucket", map, res, name \o "-object-created", bucket,
            CategoryArgs(OrEmpty(args, EmptyCategoryArgs), "s3:ObjectCreated:"))

(* onObjectRemoved(name, bucket, handler, args?, opts) of s3/bucket.ts *)
onObjectRemoved(map, res, name, bucket, args) ==
    onEvent("s3/bucket", map, res, name \o "-object-removed", bucket,
            CategoryArgs(OrEmpty(args, EmptyCategoryArgs), "s3:ObjectRemoved:"))

-----------------------------------------------------------------------------
(* The beforeExit listener *)

(* Mutant of Permissions: only the permission of the first request. *)
PermissionsFirstOnly(subscriptions) == <<subscriptions[1].permission>>

(* subscriptions.map(s => s.permission) *)
Permissions(subscriptions) ==
    [i \in 1..Len(subscriptions) |-> subscriptions[i].permission]

(* The lambdaFunctions of the notification. *)
LambdaFunctions(subscriptions) ==
    [i \in 1..Len(subscriptions) |->
        [events |-> subscriptions[i].events,
         filterPrefix |-> subscriptions[i].filterPrefix,
         filterSuffix |-> subscriptions[i].filterSuffix,
         lambdaFunctionArn |-> subscriptions[i].lambdaFunctionArn]]

(* Mutant of NotificationName: the name of the last request. *)
NotificationNameLast(subscriptions) == subscriptions[Len(subscriptions)].name

(* Mutant of NotificationName: one name for every notification. *)
NotificationNameShared(subscriptions) == "notification"

(* subscriptions[0].name *)
NotificationName(subscriptions) == subscriptions[1].name

(* new aws.s3.BucketNotification(subscriptions[0].name, {...},              *)
(*                               {parent: bucket, dependsOn: permissions})  *)
BucketNotification(bucket, subscriptions) ==
    [type |-> "aws:s3:BucketNotification",
     name |-> NotificationName(subscriptions),
     bucket |-> bucket,
     lambdaFunctions |-> LambdaFunctions(subscriptions),
     parent |-> bucket,
     dependsOn |-> Permissions(subscriptions)]

(* Mutant of DeclareNotifications: the loop ends after the first entry. *)
DeclareNotificationsFirstOnly(copy, i, res, failing) ==
    IF copy = <<>>
    THEN [resources |-> res, threw |-> "none"]
    ELSE [resources |-> Append(res, BucketNotification(copy[1].key, copy[1].value)),
          threw |-> "none"]

(* The loop over the entries of copy, from entry i on.  subscriptions[0] of *)
(* an empty list is undefined, and reading its name throws a TypeError that *)
(* ends the listener.  `failing` are the bucket objects whose notification  *)
(* the constructor refuses with an exception; nothing in the loop catches   *)
(* it, so it ends the listener too.                                         *)
RECURSIVE DeclareNotifications(_, _, _, _)
DeclareNotifications(copy, i, res, failing) ==
    IF i > Len(copy)
    THEN [resources |-> res, threw |-> "none"]
    ELSE IF copy[i].value = <<>>
         THEN [resources |-> res, threw |-> "TypeError"]
         ELSE IF copy[i].key.ref \in failing
              THEN [resources |-> res, threw |-> "UpstreamDeclarationFailure"]
              ELSE DeclareNotifications(copy, i + 1,
                       Append(res, BucketNotification(copy[i].key, copy[i].value)),
                       failing)

(* Mutant of Drained: the map is not replaced. *)
DrainedKeep(copy) == copy

(* What the listener assigns to bucketSubscriptionInfos after taking copy. *)
Drained(copy) == NewMap

(* Mutant of LiveInLoop: the map is replaced only after the loop. *)
LiveInLoopLate(copy, replaced) == copy

(* The value of bucketSubscriptionInfos while the loop over copy runs: the  *)
(* assignment of the new map comes before the loop.                        *)
LiveInLoop(copy, replaced) == replaced

(* Mutant of beforeExit: one map for the two modules, so that a listener    *)
(* takes the requests of both.                                              *)
beforeExitShared(m, st) ==
    IF st.threw # "none"
    THEN st
    ELSE LET copy == st.infos["bucket"] \o st.infos["s3/bucket"]
             out == DeclareNotifications(copy, 1, st.resources, st.failing)
         IN  [infos |-> [n \in Modules |-> NewMap],
              failing |-> st.failing,
              resources |-> out.resources,
              threw |-> out.threw,
              ran |-> [st.ran EXCEPT ![m] =
                          [threw |-> out.threw,
                           declared |-> (Len(st.resources) + 1)..Len(out.resources),
                           live |-> NewMap]]]

(* The beforeExit listener of module m, run in the state st: the maps, the  *)
(* resources, the exception that ended the emission so far, and per module  *)
(* what its listener did (`live` is the map of the module as it was while   *)
(* the loop declared the notifications).                                    *)
beforeExit(m, st) ==
    IF st.threw # "none"
    THEN st
    ELSE LET copy == st.infos[m]
             out == DeclareNotifications(copy, 1, st.resources, st.failing)
         IN  [infos |-> [st.infos EXCEPT ![m] = Drained(copy)],
              failing |-> st.failing,
              resources |-> out.resources,
              threw |-> out.threw,
              ran |-> [st.ran EXCEPT ![m] =
                          [threw |-> out.threw,
                           declared |-> (Len(st.resources) + 1)..Len(out.resources),
                           live |-> LiveInLoop(copy, Drained(copy))]]]

-----------------------------------------------------------------------------
(* The state machine *)

Init ==
    /\ bucketSubscriptionInfos = [m \in Modules |-> NewMap]
    /\ resources = <<>>
    /\ exited = FALSE
    /\ calls = <<>>
    /\ passes = <<>>

(* A subscribe call `op` of module m with the given arguments, that ended   *)
(* in the state `out`.                                                      *)
Called(op, m, name, bucket, args, out) ==
    /\ ~exited
    /\ Len(calls) < MaxCalls
    /\ bucketSubscriptionInfos' = [bucketSubscriptionInfos EXCEPT ![m] = out.map]
    /\ resources' = out.resources
    /\ calls' = Append(calls, [op |-> op, module |-> m, name |-> name,
                               bucket |-> bucket, args |-> args,
                               epoch |-> Len(passes), threw |-> out.threw,
                               declared |-> (Len(resources) + 1)..Len(out.resources)])
    /\ UNCHANGED <<exited, passes>>

OnEvent(m) ==
    \E name \in Names, bucket \in Buckets, args \in BucketEventSubscriptionArgs :
        Called("onEvent", m, name, bucket, <<args>>,
               onEvent(m, bucketSubscriptionInfos[m], resources, name, bucket, args))

OnPut ==
    \E name \in HelperNames, bucket \in Buckets, args \in BucketPutArgs :
        Called("onPut", "bucket", name, bucket, args,
               onPut(bucketSubscriptionInfos["bucket"], resources, name, bucket, args))

OnDelete ==
    \E name \in HelperNames, bucket \in Buckets, args \in BucketDeleteArgs :
        Called("onDelete", "bucket", name, bucket, args,
               onDelete(bucketSubscriptionInfos["bucket"], resources, name, bucket, args))

OnObjectCreated ==
    \E name \in HelperNames, bucket \in Buckets, args \in ObjectCreatedSubscriptionArgs :
        Called("onObjectCreated", "s3/bucket", name, bucket, args,
               onObjectCreated(bucketSubscriptionInfos["s3/bucket"], resources,
                               name, bucket, args))

OnObjectRemoved ==
    \E name \in HelperNames, bucket \in Buckets, args \in ObjectRemovedSubscriptionArgs :
        Called("onObjectRemoved", "s3/bucket", name, bucket, args,
               onObjectRemoved(bucketSubscriptionInfos["s3/bucket"], resources,
                               name, bucket, args))

(* The orders in which the listeners of the two modules can have been       *)
(* registered: the order in which the program imported the modules.         *)
ListenerOrders == {<<"bucket", "s3/bucket">>, <<"s3/bucket", "bucket">>}

NotRun == [m \in Modules |-> [threw |-> "none", declared |-> {}, live |-> NewMap]]

(* The event loop is empty and the process emits `beforeExit`: the          *)
(* listeners run in the order of their registration.  Declaring a resource  *)
(* puts work on the event loop, so beforeExit is emitted again later; an    *)
(* emission that declares nothing leaves the loop empty and the process     *)
(* exits.                                                                   *)
(* `failing` are the bucket objects whose notification is refused; an       *)
(* exception out of a listener ends the emission and the process.           *)
(* st0 is the state at the emission, mid the state between the two         *)
(* listeners and out the state after them.                                  *)
Emit(failing, failed) ==
    /\ ~exited
    /\ \E order \in ListenerOrders :
          \E st0 \in {[infos |-> bucketSubscriptionInfos, resources |-> resources,
                       failing |-> failing, threw |-> "none", ran |-> NotRun]} :
          \E mid \in {beforeExit(order[1], st0)} :
          \E out \in {beforeExit(order[2], mid)} :
              /\ failed = (out.threw # "none")
              /\ bucketSubscriptionInfos' = out.infos
              /\ resources' = out.resources
              /\ exited' = (out.threw # "none" \/ out.resources = resources)
              /\ passes' = Append(passes, out.ran)
    /\ UNCHANGED calls

(* beforeExit is emitted and every declaration is accepted. *)
BeforeExit == Emit({}, FALSE)

(* beforeExit is emitted and the declaration of the notification of one     *)
(* bucket is refused.                                                       *)
BeforeExitRefused == \E b \in Buckets : Emit({b.ref}, TRUE)

Next ==
    \/ \E m \in Modules : OnEvent(m)
    \/ OnPut
    \/ OnDelete
    \/ OnObjectCreated
    \/ OnObjectRemoved
    \/ BeforeExit

Spec == Init /\ [][Next]_vars

(* Declaring a resource puts work on the event loop, and Node emits         *)
(* beforeExit each time the loop runs empty: an emission that is possible   *)
(* until the process exits does happen.                                     *)
SpecLive == Spec /\ WF_vars(BeforeExit)

(* The program with declarations that can be refused. *)
NextRefused == Next \/ BeforeExitRefused

SpecRefused == Init /\ [][NextRefused]_vars

-----------------------------------------------------------------------------
(* Reading the histories *)

(* The declared bucket notifications, by position in `resources`. *)
Notifications ==
    {i \in 1..Len(resources) : resources[i].type = "aws:s3:BucketNotification"}

(* The notifications the listener of module m declared, in any emission. *)
NotificationsBy(m) == UNION {passes[k][m].declared : k \in 1..Len(passes)}

(* The function and the permission a subscribe call declared. *)
FunctionOf(c) ==
    CHOOSE i \in c.declared : resources[i].type = "aws:lambda:Function"

PermissionOf(c) ==
    CHOOSE i \in c.declared : resources[i].type = "aws:lambda:Permission"

(* The name under which a call registered its request: the name the         *)
(* constructor got, which is the name of the permission it declared.        *)
RegisteredName(c) == resources[PermissionOf(c)].name

(* The calls of module m against bucket b made after e emissions and before *)
(* the next one, in order.                                                  *)
CallsFor(m, b, e) ==
    SelectSeq(calls, LAMBDA c : c.module = m /\ c.bucket = b /\ c.epoch = e)

(* The notifications with an entry for the function of call c. *)
NotificationsWith(c) ==
    {i \in Notifications :
        \E j \in 1..Len(resources[i].lambdaFunctions) :
            resources[i].lambdaFunctions[j].lambdaFunctionArn = Arn(FunctionOf(c))}

(* The pending requests of call c in the map of its module. *)
PendingOf(c) ==
    LET map == bucketSubscriptionInfos[c.module]
    IN  {<<i, j>> \in (1..Len(map)) \X (1..MaxCalls + 1) :
            /\ j <= Len(map[i].value)
            /\ map[i].value[j].lambdaFunctionArn = Arn(FunctionOf(c))}

(* The events lists registered for call c: of its pending request and of    *)
(* its entries in declared notifications.                                   *)
RegisteredEvents(c) ==
    {bucketSubscriptionInfos[c.module][p[1]].value[p[2]].events : p \in PendingOf(c)}
    \cup UNION {{resources[i].lambdaFunctions[j].events :
                    j \in {j \in 1..Len(resources[i].lambdaFunctions) :
                             resources[i].lambdaFunctions[j].lambdaFunctionArn
                               = Arn(FunctionOf(c))}} :
                i \in NotificationsWith(c)}

CallSet == {calls[j] : j \in 1..Len(calls)}

-----------------------------------------------------------------------------
(* The caller keeps the args object *)

(* The constructor stores `events: args.events`: the array of the caller,   *)
(* not a copy.  Between the call of onEvent and the emission the caller     *)
(* pushes an event on the array it passed, and the pending request, which   *)
(* holds the same array, has it too.  (The helpers pass a fresh array the   *)
(* caller never sees, and filterPrefix and filterSuffix are strings, held   *)
(* by value.)  Each array is pushed on once.                                *)
CallerMutatesEvents ==
    /\ ~exited
    /\ \E c \in CallSet :
          /\ c.op = "onEvent"
          /\ \E p \in PendingOf(c) :
                /\ bucketSubscriptionInfos[c.module][p[1]].value[p[2]].events
                     = c.args[1].events
                /\ bucketSubscriptionInfos' =
                      [bucketSubscriptionInfos EXCEPT
                          ![c.module][p[1]].value[p[2]].events =
                              Append(@, "s3:ObjectRemoved:Delete")]
    /\ UNCHANGED <<resources, exited, calls, passes>>

NextMutation == Next \/ CallerMutatesEvents

(* The program with a caller that changes the arrays it passed. *)
SpecMutation == Init /\ [][NextMutation]_vars

-----------------------------------------------------------------------------
C2_AtMostOnePerBucket ==
    \A m \in Modules, b \in Buckets :
        Cardinality({i \in NotificationsBy(m) : resources[i].bucket = b}) <= 1

C4_BucketIsolation ==
    \A i \in Notifications :
        LET n == resources[i]
            own == {c \in CallSet : c.bucket.ref = n.parent.ref}
        IN  /\ \A j \in 1..Len(n.lambdaFunctions) :
                  \E c \in own : n.lambdaFunctions[j].lambdaFunctionArn = Arn(FunctionOf(c))
            /\ \A j \in 1..Len(n.dependsOn) :
                  \E c \in own : n.dependsOn[j] = PermissionOf(c)
            /\ \E c \in own : n.name = RegisteredName(c) /\ i \in NotificationsWith(c)

(* Two bucket objects of the same name, each with its own notification. *)
C4_Witness ==
    \E i, j \in Notifications :
        /\ resources[i].parent.ref # resources[j].parent.ref
        /\ resources[i].parent.name = resources[j].parent.name
        /\ \E k \in 1..Len(passes), m \in Modules : {i, j} \subseteq passes[k][m].declared

(* C5: a listener that runs when no request was registered through its      *)
(* module since the previous emission (or since the start) declares         *)
(* nothing and throws nothing, and the map of the module is empty after it. *)
C5_EmptyPassIsNoOp ==
    \A k \in 1..Len(passes), m \in Modules :
        (\A c \in CallSet : ~(c.module = m /\ c.epoch = k - 1)) =>
            /\ passes[k][m].declared = {}
            /\ passes[k][m].threw = "none"
            /\ (Len(passes) = k /\ \A c \in CallSet : ~(c.module = m /\ c.epoch = k)) =>
                  bucketSubscriptionInfos[m] = NewMap

(* Two emissions in a row: the first declared a notification, the second    *)
(* nothing.                                                                 *)
C5_Witness ==
    /\ Len(passes) = 2
    /\ \E m \in Modules : passes[1][m].declared # {}
    /\ \A c \in CallSet : c.epoch = 0
    /\ \A m \in Modules : passes[2][m].declared = {}

(* C6: a notification has the name under which the first request of its     *)
(* bucket since the emission before was registered, and the bucket as its   *)
(* parent.                                                                  *)
C6_NameOfFirstRequest ==
    \A k \in 1..Len(passes), m \in Modules :
        \A i \in passes[k][m].declared :
            LET cs == CallsFor(m, resources[i].bucket, k - 1)
            IN  /\ Len(cs) >= 1
                /\ resources[i].name = RegisteredName(cs[1])
                /\ resources[i].parent = cs[1].bucket

(* A notification of two requests registered under different names. *)
C6_Witness ==
    \E k \in 1..Len(passes), m \in Modules :
        \E i \in passes[k][m].declared :
            LET cs == CallsFor(m, resources[i].bucket, k - 1)
            IN  Len(cs) = 2 /\ RegisteredName(cs[1]) # RegisteredName(cs[2])

(* C7: the dependsOn of a notification is exactly the permissions of the    *)
(* requests in its entries.                                                 *)
C7_DependsOnAllPermissions ==
    \A i \in Notifications :
        {resources[i].dependsOn[j] : j \in 1..Len(resources[i].dependsOn)}
          = {p \in 1..Len(resources) :
                /\ resources[p].type = "aws:lambda:Permission"
                /\ \E j \in 1..Len(resources[i].lambdaFunctions) :
                      resources[i].lambdaFunctions[j].lambdaFunctionArn
                        = Arn(resources[p].function)}

(* A notification of two requests, depending on their two permissions. *)
C7_Witness ==
    \E i \in Notifications :
        /\ Len(resources[i].dependsOn) = 2
        /\ resources[i].dependsOn[1] # resources[i].dependsOn[2]

(* C8: onEvent with an empty events list throws InvalidArgument, declares   *)
(* no resource and registers nothing.                                       *)
C8_EmptyEventsRejected ==
    \A c \in CallSet :
        (c.op = "onEvent" /\ c.args[1].events = <<>>) =>
            c.threw = "InvalidArgument" /\ c.declared = {}

(* A helper call with the empty string as qualifier. *)
EmptyQualifier(c) ==
    /\ c.op \in {"onObjectCreated", "onObjectRemoved"}
    /\ c.args # <<>>
    /\ c.args[1].event = ""

(* C9: onObjectCreated and onObjectRemoved with the empty string as         *)
(* qualifier throw InvalidArgument and register nothing.                    *)
C9_EmptyQualifierRejected ==
    \A c \in CallSet :
        EmptyQualifier(c) => c.threw = "InvalidArgument" /\ c.declared = {}

(* The category of a helper. *)
Category(op) ==
    IF op \in {"onPut", "onObjectCreated"} THEN "s3:ObjectCreated" ELSE "s3:ObjectRemoved"

(* C9, amended: onObjectCreated and onObjectRemoved take the empty string   *)
(* as an omitted qualifier: the call throws nothing and registers a request *)
(* whose events list is the one element "<category>:*".                     *)
C9_EmptyQualifierIsDefault ==
    \A c \in CallSet :
        EmptyQualifier(c) =>
            /\ c.threw = "none"
            /\ RegisteredEvents(c) = {<<Category(c.op) \o ":*">>}

(* A helper called with the empty string as qualifier, its request pending. *)
C9_Witness ==
    \E c \in CallSet : EmptyQualifier(c) /\ PendingOf(c) # {}

(* C10: a helper registers an events list of one element: onPut the created *)
(* category with "*", onDelete the removed category with "*",               *)
(* onObjectCreated and onObjectRemoved their category with the qualifier    *)
(* given, and with "*" when the qualifier or the args object is omitted.    *)
C10_HelperEvents ==
    \A c \in CallSet :
        /\ c.op \in {"onPut", "onDelete"} =>
              RegisteredEvents(c) = {<<Category(c.op) \o ":*">>}
        /\ (c.op \in {"onObjectCreated", "onObjectRemoved"} /\ ~EmptyQualifier(c)) =>
              RegisteredEvents(c) =
                  {<<Category(c.op) \o ":" \o
                       (IF c.args = <<>> THEN "*"
                        ELSE IF c.args[1].event = Undefined THEN "*"
                        ELSE c.args[1].event)>>}

(* onObjectRemoved called with the qualifier "Delete", its request pending, *)
(* and onPut called, its request declared in a notification.               *)
C10_Witness ==
    \E c, d \in CallSet :
        /\ c.op = "onObjectRemoved" /\ c.args # <<>> /\ c.args[1].event = "Delete"
        /\ d.op = "onPut"
        /\ PendingOf(c) # {} /\ NotificationsWith(d) # {}

-----------------------------------------------------------------------------
(* The function objects with a request in the map. *)
FunctionsIn(map) ==
    UNION {{map[i].value[j].lambdaFunctionArn.arnOf : j \in 1..Len(map[i].value)} :
            i \in 1..Len(map)}

(* The function objects with an entry in the notification at position i. *)
FunctionsOf(i) ==
    {resources[i].lambdaFunctions[j].lambdaFunctionArn.arnOf :
        j \in 1..Len(resources[i].lambdaFunctions)}

PendingAnywhere(c) ==
    {<<m, i, j>> \in Modules \X (1..MaxCalls + 1) \X (1..MaxCalls + 1) :
        /\ i <= Len(bucketSubscriptionInfos[m])
        /\ j <= Len(bucketSubscriptionInfos[m][i].value)
        /\ bucketSubscriptionInfos[m][i].value[j].lambdaFunctionArn = Arn(FunctionOf(c))}

DeclaredAnywhere(c) ==
    {<<i, j>> \in Notifications \X (1..MaxCalls + 1) :
        /\ j <= Len(resources[i].lambdaFunctions)
        /\ resources[i].lambdaFunctions[j].lambdaFunctionArn = Arn(FunctionOf(c))}

(* C12: the request of every subscribe call is in exactly one place: once   *)
(* in the map of its module, or once in the entries of one notification.    *)
C12_NeitherLostNorDoubled ==
    \A c \in CallSet :
        /\ Cardinality(PendingAnywhere(c)) + Cardinality(DeclaredAnywhere(c)) = 1
        /\ \A p \in PendingAnywhere(c) : p[1] = c.module

(* One request declared by an emission, another one registered after it and *)
(* pending.                                                                 *)
C12_Witness ==
    \E c, d \in CallSet :
        /\ c.bucket = d.bucket /\ c.module = d.module
        /\ DeclaredAnywhere(c) # {} /\ PendingAnywhere(d) # {}

(* The buckets of the map a listener of module m took in emission k that    *)
(* got no notification with all their requests from it.                     *)
Undeclared(k, m) ==
    {b \in Buckets :
        /\ Len(CallsFor(m, b, k - 1)) >= 1
        /\ ~\E i \in passes[k][m].declared :
               /\ resources[i].bucket = b
               /\ Len(resources[i].lambdaFunctions) = Len(CallsFor(m, b, k - 1))}

(* C13: when the declaration of one notification is refused in a listener, *)
(* every other bucket of the map the listener took still gets its           *)
(* notification, with all its requests.                                     *)
C13_FailureIsolated ==
    \A k \in 1..Len(passes), m \in Modules :
        passes[k][m].threw = "UpstreamDeclarationFailure" =>
            Cardinality(Undeclared(k, m)) <= 1

(* The resources of the given type among those at the positions in `at`. *)
OfType(res, at, type) == {i \in at : res[i].type = type}

(* The step is a subscribe call (the last of calls') that kept the lists of all other buckets    *)
(* and the requests already in the list of its own bucket, and put one      *)
(* request at the end of that list.                                         *)
AppendedOne ==
    LET c   == calls'[Len(calls')]
        old == bucketSubscriptionInfos[c.module]
        new == bucketSubscriptionInfos'[c.module]
        at  == {i \in 1..Len(new) : new[i].key = c.bucket}
    IN  /\ \A m \in Modules \ {c.module} :
              bucketSubscriptionInfos'[m] = bucketSubscriptionInfos[m]
        /\ Cardinality(at) = 1
        /\ \A i \in 1..Len(old) :
              /\ i <= Len(new)
              /\ new[i].key = old[i].key
              /\ i \notin at => new[i].value = old[i].value
              /\ i \in at => /\ Len(new[i].value) = Len(old[i].value) + 1
                             /\ SubSeq(new[i].value, 1, Len(old[i].value)) = old[i].value
        /\ \A i \in at :
              /\ i > Len(old) => (i = Len(new) /\ Len(new[i].value) = 1)
              /\ \E f \in OfType(resources', c.declared, "aws:lambda:Function") :
                    new[i].value[Len(new[i].value)].lambdaFunctionArn = Arn(f)
              /\ new[i].value[Len(new[i].value)].permission
                    \in OfType(resources', c.declared, "aws:lambda:Permission")
        /\ Len(new) <= Len(old) + 1

(* C14: a subscribe call declares its permission in the call, puts exactly  *)
(* one request at the end of the list of its own bucket, declares no        *)
(* notification and changes no other list and no request already there;     *)
(* notifications are declared by emissions of beforeExit only.              *)
C14_SubscribeFrame ==
    [][ /\ calls' # calls =>
            LET c == calls'[Len(calls')]
            IN  /\ c.declared = (Len(resources) + 1)..Len(resources')
                /\ SubSeq(resources', 1, Len(resources)) = resources
                /\ Cardinality(OfType(resources', c.declared, "aws:lambda:Permission")) = 1
                /\ OfType(resources', c.declared, "aws:s3:BucketNotification") = {}
                /\ AppendedOne
        /\ (\E i \in 1..Len(resources') :
               i > Len(resources) /\ resources'[i].type = "aws:s3:BucketNotification")
             => (passes' # passes /\ calls' = calls)
      ]_vars

(* A call that found a request in the list of its bucket and put its own    *)
(* after it.                                                                *)
C14_Witness ==
    \E m \in Modules :
        /\ Len(bucketSubscriptionInfos[m]) = 1
        /\ Len(bucketSubscriptionInfos[m][1].value) = 2

(* C15: every key of a map has a list with at least one request, in every   *)
(* state and so in every map a listener takes; no listener reads the first  *)
(* request of an empty list (no TypeError), and every notification has at   *)
(* least one entry and a bucket with a subscribe call.                      *)
C15_NoEmptyList ==
    /\ \A m \in Modules : \A i \in 1..Len(bucketSubscriptionInfos[m]) :
          Len(bucketSubscriptionInfos[m][i].value) >= 1
    /\ \A k \in 1..Len(passes), m \in Modules :
          /\ passes[k][m].threw # "TypeError"
          /\ \A i \in passes[k][m].declared :
                /\ Len(resources[i].lambdaFunctions) >= 1
                /\ Len(CallsFor(m, resources[i].bucket, k - 1)) >= 1

(* A bucket without a subscribe call while an emission declared the         *)
(* notification of the other bucket.                                        *)
C15_Witness ==
    \E b \in Buckets :
        /\ \A c \in CallSet : c.bucket # b
        /\ Len(passes) >= 1
        /\ Notifications # {}
        /\ \A i \in Notifications : resources[i].bucket # b

(* C16: the events, filterPrefix and filterSuffix of an entry of a declared *)
(* notification are the values the subscribe call was given, whatever the   *)
(* caller did to the args object or its events array after the call.        *)
C16_RequestImmutable ==
    \A c \in CallSet : \A i \in NotificationsWith(c) :
        \A j \in 1..Len(resources[i].lambdaFunctions) :
            LET f == resources[i].lambdaFunctions[j]
                given == IF c.op \in {"onPut", "onDelete"}
                         THEN OrEmpty(c.args, EmptySimpleArgs)
                         ELSE OrEmpty(c.args, EmptyCategoryArgs)
            IN  f.lambdaFunctionArn = Arn(FunctionOf(c)) =>
                    /\ f.filterPrefix = given.filterPrefix
                    /\ f.filterSuffix = given.filterSuffix
                    /\ c.op = "onEvent" => f.events = c.args[1].events

(* The process has exited after an emission that declared nothing, both     *)
(* maps are empty, and every subscribe call made has an entry in a declared *)
(* notification.                                                            *)
Quiescent ==
    /\ exited
    /\ Len(passes) >= 1
    /\ \A m \in Modules :
          /\ bucketSubscriptionInfos[m] = NewMap
          /\ passes[Len(passes)][m].declared = {}
    /\ \A c \in CallSet : NotificationsWith(c) # {}

(* C17: with finitely many subscribe calls and beforeExit emitted again     *)
(* after every emission that declared a resource, eventually and for good   *)
(* every request made is declared in a notification, the maps are empty,    *)
(* and an emission has declared nothing, so beforeExit is emitted no more.  *)
C17_Quiescence == <>[]Quiescent

(* The process has exited with requests made before the first emission and  *)
(* after it, all declared.                                                  *)
C17_Witness ==
    /\ Quiescent
    /\ Len(passes) >= 3
    /\ \E c, d \in CallSet : c.epoch = 0 /\ d.epoch = 1

(* The calls of module m whose function has the given deferred arn. *)
CallsOfArn(m, arn) ==
    {c \in CallSet : c.module = m /\ Arn(FunctionOf(c)) = arn}

C19_DistinctNames ==
    \A m \in Modules :
        (\A c, d \in CallSet :
            (c.module = m /\ d.module = m /\ c # d)
                => RegisteredName(c) # RegisteredName(d))
        => \A i, j \in NotificationsBy(m) :
               i # j => resources[i].name # resources[j].name

(* A module with two requests of distinct names and two notifications. *)
C19_Witness ==
    \E m \in Modules :
        /\ \E c, d \in CallSet :
              /\ c.module = m /\ d.module = m
              /\ RegisteredName(c) # RegisteredName(d)
        /\ Cardinality(NotificationsBy(m)) = 2

(* The suffix a subscribe operation puts after the name it is given. *)
NameSuffix(op) ==
    CASE op = "onPut" -> "-put"
      [] op = "onDelete" -> "-delete"
      [] op = "onObjectCreated" -> "-object-created"
      [] op = "onObjectRemoved" -> "-object-removed"
      [] OTHER -> ""

(* C20: a helper called with name n registers its request under n and the   *)
(* suffix of the helper, onEvent under n itself; a notification whose first *)
(* entry is the request of the call has that registered name.               *)
C20_HelperNames ==
    \A c \in CallSet :
        /\ RegisteredName(c) = c.name \o NameSuffix(c.op)
        /\ c.op # "onEvent" => RegisteredName(c) # c.name
        /\ \A i \in NotificationsWith(c) :
              resources[i].lambdaFunctions[1].lambdaFunctionArn = Arn(FunctionOf(c))
                  => resources[i].name = c.name \o NameSuffix(c.op)

(* A notification whose first entry is the request of a helper, and one     *)
(* whose first entry is the request of onEvent.                             *)
C20_Witness ==
    \E c, d \in CallSet :
        /\ c.op # "onEvent" /\ d.op = "onEvent"
        /\ \E i \in NotificationsWith(c) :
              resources[i].lambdaFunctions[1].lambdaFunctionArn = Arn(FunctionOf(c))
        /\ \E i \in NotificationsWith(d) :
              resources[i].lambdaFunctions[1].lambdaFunctionArn = Arn(FunctionOf(d))

====
